---------------------------- MODULE Spec2Model ----------------------------
(***************************************************************************)
(* Burrows-Wheeler transform with run-length encoding                      *)
(* (src/src/bwtstring.rs).                                                 *)
(*                                                                         *)
(* A BWTByte is modelled as an integer: Byte(v) is v in 0..255 and         *)
(* Sentinel is -1.  A BWTStr is a record [inner, sentinel_index] whose     *)
(* inner is the VecDeque's contents front to back (1-indexed here,         *)
(* 0-indexed in the source).  A call that panics yields                    *)
(* [ok |-> FALSE]; one that returns yields [ok |-> TRUE, val |-> ...].     *)
(***************************************************************************)
EXTENDS Integers, Sequences, FiniteSets, TLC

\* ------------------------------------------------------------ bounds
\* Longest input buffer handed to the constructors.
MaxLen == 3

\* Largest byte value occurring in an input buffer.
MaxByte == 1

\* Operations applied in a row to one object.
MaxOps == 5

\* Cap on the length of the result reverse_transform accumulates (its loop
\* is unbounded on a sequence without a Sentinel).
MaxOut == 5

\* ------------------------------------------------------------ BWTByte
Sentinel == -1

U16_MAX == 65535

\* usize::to_le_bytes on the 64-bit target: 8 bytes.
USIZE_BYTES == 8

is_sentinel(x) == x = Sentinel

\* A plausible slip in the ordering: Sentinel greater than every byte.
partial_cmp_SentinelLast(x, y) ==
    CASE is_sentinel(x) /\ is_sentinel(y) -> 0
      [] is_sentinel(x) /\ ~is_sentinel(y) -> 1
      [] ~is_sentinel(x) /\ is_sentinel(y) -> -1
      [] OTHER -> IF x < y THEN -1 ELSE IF x = y THEN 0 ELSE 1

\* impl PartialOrd for BWTByte: -1 Less, 0 Equal, 1 Greater.
partial_cmp(x, y) ==
    CASE is_sentinel(x) /\ is_sentinel(y) -> 0
      [] is_sentinel(x) /\ ~is_sentinel(y) -> -1
      [] ~is_sentinel(x) /\ is_sentinel(y) -> 1
      [] OTHER -> IF x < y THEN -1 ELSE IF x = y THEN 0 ELSE 1

\* impl Ord for BWTByte
cmp(x, y) == partial_cmp(x, y)

\* Iterator::cmp over two inner sequences: lexicographic, a strict prefix
\* is Less.
RECURSIVE iter_cmp(_, _)
iter_cmp(x, y) ==
    IF x = <<>> /\ y = <<>> THEN 0
    ELSE IF x = <<>> THEN -1
    ELSE IF y = <<>> THEN 1
    ELSE IF cmp(Head(x), Head(y)) # 0 THEN cmp(Head(x), Head(y))
    ELSE iter_cmp(Tail(x), Tail(y))

\* ------------------------------------------------------------ BWTStr
BWTStr(in, si) == [inner |-> in, sentinel_index |-> si]

Ok(v) == [ok |-> TRUE, val |-> v]

Panic == [ok |-> FALSE]

len(self) == Len(self.inner)

\* BWTStr::new: the Sentinel is pushed at the back, sentinel_index is the
\* length after the push.
new(bytes) ==
    LET in == Append(bytes, Sentinel)
    IN  BWTStr(in, Len(in))

\* BWTStr::new_with_sentinal: VecDeque::insert panics when index > len.
new_with_sentinal(bytes, sentinal_index) ==
    IF sentinal_index > Len(bytes) THEN Panic
    ELSE Ok(BWTStr(SubSeq(bytes, 1, sentinal_index) \o <<Sentinel>>
                     \o SubSeq(bytes, sentinal_index + 1, Len(bytes)),
                   sentinal_index))

\* BWTStr::rotate
rotate(self) ==
    IF self.inner = <<>> THEN self
    ELSE LET in == Append(Tail(self.inner), Head(self.inner))
         IN  BWTStr(in, (self.sentinel_index + Len(in) - 1) % Len(in))

\* The loop of all_rotations: n more rotations pushed after rotations.
RECURSIVE rotations_loop(_, _, _)
rotations_loop(rotations, cur, n) ==
    IF n = 0 THEN rotations
    ELSE rotations_loop(Append(rotations, rotate(cur)), rotate(cur), n - 1)

\* BWTStr::all_rotations: the clone is pushed, then `for _ in 0..self.len()`
\* rotates and pushes.
all_rotations(self) == rotations_loop(<<self>>, self, len(self))

\* Stable insertion of row into a sorted vector: after every row not
\* greater than it.
RECURSIVE insert_sorted(_, _)
insert_sorted(row, sorted) ==
    IF sorted = <<>> THEN <<row>>
    ELSE IF iter_cmp(row.inner, Head(sorted).inner) = -1 THEN <<row>> \o sorted
    ELSE <<Head(sorted)>> \o insert_sorted(row, Tail(sorted))

\* BWTStr::lex_sort: Vec::sort_by (stable) on the inner sequences.
RECURSIVE lex_sort(_)
lex_sort(v) ==
    IF v = <<>> THEN <<>>
    ELSE insert_sorted(v[Len(v)], lex_sort(SubSeq(v, 1, Len(v) - 1)))

\* BWTStr::all_rotations_sorted
all_rotations_sorted(self) == lex_sort(all_rotations(self))

\* Iterator::position: the 0-based index of the first row tagged
\* sentinel_index == n, or -1 (None).
RECURSIVE position_from(_, _, _)
position_from(rotations, n, j) ==
    IF j > Len(rotations) THEN -1
    ELSE IF rotations[j].sentinel_index = n THEN j - 1
    ELSE position_from(rotations, n, j + 1)

\* The anchor taken to be row 0, whatever row the original sorts to.
forward_transform_AnchorZero(self) ==
    LET rotations == all_rotations_sorted(self)
        kept == SelectSeq(rotations,
                          LAMBDA r : r.sentinel_index # len(self))
    IN  IF \E j \in 1..Len(kept) : kept[j].inner = <<>> THEN Panic
        ELSE Ok(BWTStr([j \in 1..Len(kept) |->
                           kept[j].inner[Len(kept[j].inner)]], 0))

\* BWTStr::forward_transform
forward_transform(self) ==
    LET rotations == all_rotations_sorted(self)
        kept == SelectSeq(rotations,
                          LAMBDA r : r.sentinel_index # len(self))
        p == position_from(rotations, len(self), 1)
    IN  IF \E j \in 1..Len(kept) : kept[j].inner = <<>> THEN Panic
        ELSE IF p = -1 THEN Panic
        ELSE Ok(BWTStr([j \in 1..Len(kept) |->
                           kept[j].inner[Len(kept[j].inner)]], p))

\* Stable insertion of one BWTByte into a sorted sequence.
RECURSIVE insert_byte(_, _)
insert_byte(x, sorted) ==
    IF sorted = <<>> THEN <<x>>
    ELSE IF cmp(x, Head(sorted)) = -1 THEN <<x>> \o sorted
    ELSE <<Head(sorted)>> \o insert_byte(x, Tail(sorted))

RECURSIVE sort_bytes(_)
sort_bytes(q) ==
    IF q = <<>> THEN <<>>
    ELSE insert_byte(q[Len(q)], sort_bytes(SubSeq(q, 1, Len(q) - 1)))

\* The sort forgotten: the left column is the right column.
as_sorted_Unsorted(self) == BWTStr(self.inner, 0)

\* BWTStr::as_sorted
as_sorted(self) == BWTStr(sort_bytes(self.inner), 0)

\* A rank that counts the occurrence itself: off by one.
rank_vec_Inclusive(self) ==
    [j \in 1..len(self) |->
        IF is_sentinel(self.inner[j]) THEN 0
        ELSE Cardinality({k \in 1..j : self.inner[k] = self.inner[j]})]

\* BWTStr::rank_vec: ranks[j] counts the earlier occurrences of the byte at
\* j; the Sentinel is pushed as 0.
rank_vec(self) ==
    [j \in 1..len(self) |->
        IF is_sentinel(self.inner[j]) THEN 0
        ELSE Cardinality({k \in 1..(j - 1) : self.inner[k] = self.inner[j]})]

\* left.inner.iter().enumerate().filter(== Byte(x)): the 0-based indices
\* of x in the left column, ascending.
RECURSIVE occurrences_from(_, _, _)
occurrences_from(q, x, j) ==
    IF j > Len(q) THEN <<>>
    ELSE IF q[j] = x THEN <<j - 1>> \o occurrences_from(q, x, j + 1)
    ELSE occurrences_from(q, x, j + 1)

occurrences(q, x) == occurrences_from(q, x, 1)


\* ------------------------------------------------------------ RLE codec
\* rle_write iterates self.inner; the model holds that inner as blocks
\* [sym, n], each standing for sym repeated n times, so that runs longer
\* than u16::MAX can be stated.
Block(x, n) == [sym |-> x, n |-> n]

as_blocks(q) == [j \in 1..Len(q) |-> Block(q[j], 1)]

RECURSIVE blocks_len(_)
blocks_len(bl) ==
    IF bl = <<>> THEN 0 ELSE Head(bl).n + blocks_len(Tail(bl))

\* The element at 0-based index j.
RECURSIVE block_at(_, _)
block_at(bl, j) ==
    IF j < Head(bl).n THEN Head(bl).sym
    ELSE block_at(Tail(bl), j - Head(bl).n)

\* The sequence the blocks stand for.
RECURSIVE elems(_)
elems(bl) ==
    IF bl = <<>> THEN <<>>
    ELSE [j \in 1..Head(bl).n |-> Head(bl).sym] \o elems(Tail(bl))

None == -2

\* iter.peek() after k elements were consumed.
peek(self, k) ==
    IF k < blocks_len(self.blocks) THEN block_at(self.blocks, k) ELSE None

\* BWTByte::is_byte_and(|byte| byte == &x)
is_byte_and_eq(y, x) == y # None /\ ~is_sentinel(y) /\ y = x

\* to_le_bytes of an unsigned integer of the given width in bytes: the
\* least significant byte first.
RECURSIVE to_le_bytes(_, _)
to_le_bytes(n, width) ==
    IF width = 0 THEN <<>>
    ELSE <<n % 256>> \o to_le_bytes(n \div 256, width - 1)

\* The count written before the byte.
record_bytes_CountFirst(x, c) == to_le_bytes(c, 2) \o <<x>>

\* writer.write(&[x]); writer.write(c.to_le_bytes())
record_bytes(x, c) == <<x>> \o to_le_bytes(c, 2)

\* from_le_bytes
RECURSIVE from_le_bytes(_)
from_le_bytes(q) ==
    IF q = <<>> THEN 0 ELSE Head(q) + 256 * from_le_bytes(Tail(q))

\* Decode: expand the (byte, run_length) records in stream order.
RECURSIVE expand_records(_)
expand_records(q) ==
    IF q = <<>> THEN <<>>
    ELSE [j \in 1..from_le_bytes(SubSeq(q, 2, 3)) |-> q[1]]
            \o expand_records(SubSeq(q, 4, Len(q)))

Malformed == [ok |-> FALSE, err |-> "MalformedStream"]

\* BWTStr::rle_read: the 8-byte header, the records, the Sentinel put back.
rle_read(bytes) ==
    IF Len(bytes) < USIZE_BYTES THEN Malformed
    ELSE LET si == from_le_bytes(SubSeq(bytes, 1, USIZE_BYTES))
             body == SubSeq(bytes, USIZE_BYTES + 1, Len(bytes))
         IN  IF Len(body) % 3 # 0 THEN Malformed
             ELSE LET data == expand_records(body)
                  IN  IF si > Len(data) THEN Malformed
                      ELSE new_with_sentinal(data, si)

\* ------------------------------------------------------------ state
VARIABLES
    buf,     \* the byte buffer handed to the constructor
    idx,     \* the sentinal_index handed to new_with_sentinal
    s,       \* the BWTStr the operations are applied to
    hist,    \* the operations that returned so far, in order
    pc,      \* "start" | "idle" | "rev" | "rle_entry" | "w_outer" | "w_inner" | "panic"
    right,   \* reverse_transform: self.clone()
    left,    \* reverse_transform: right.as_sorted()
    ranks,   \* reverse_transform: self.rank_vec()
    inner,   \* reverse_transform: the VecDeque being built
    col,     \* reverse_transform: Left | Right
    i,       \* reverse_transform: the row
    w,       \* rle_write: self, its inner held as blocks [sym, n]
    pos,     \* rle_write: elements the iterator has consumed
    cnt,     \* rle_write: the u16 run counter
    b,       \* rle_write: the byte of the run being counted
    out      \* rle_write: the bytes written so far

vars == <<buf, idx, s, hist, pc, right, left, ranks, inner, col, i, w, pos, cnt, b, out>>

rev_vars == <<right, left, ranks, inner, col, i>>

rle_vars == <<w, pos, cnt, b, out>>

NoStr == BWTStr(<<>>, 0)

NoBlocks == [blocks |-> <<>>, sentinel_index |-> 0]

ByteVals == 0..MaxByte

RECURSIVE SeqsUpTo(_, _)
SeqsUpTo(S, n) ==
    IF n = 0 THEN {<<>>}
    ELSE LET shorter == SeqsUpTo(S, n - 1)
         IN  shorter \cup {Append(q, x) : q \in {t \in shorter : Len(t) = n - 1}, x \in S}

Buffers == SeqsUpTo(ByteVals, MaxLen)

Init ==
    /\ buf \in Buffers
    /\ idx = 0
    /\ s = NoStr
    /\ hist = <<>>
    /\ pc = "start"
    /\ right = NoStr /\ left = NoStr /\ ranks = <<>> /\ inner = <<>>
    /\ col = "Left" /\ i = 0
    /\ w = NoBlocks /\ pos = 0 /\ cnt = 0 /\ b = 0 /\ out = <<>>

\* ------------------------------------------------------------ constructors
New ==
    /\ pc = "start"
    /\ s' = new(buf)
    /\ hist' = <<"new">>
    /\ pc' = "idle"
    /\ UNCHANGED <<buf, idx, rev_vars, rle_vars>>

NewWithSentinal ==
    /\ pc = "start"
    /\ \E k \in 0..(Len(buf) + 1) :
          /\ idx' = k
          /\ LET r == new_with_sentinal(buf, k)
             IN  IF r.ok
                 THEN /\ s' = r.val
                      /\ pc' = "idle"
                 ELSE /\ s' = s
                      /\ pc' = "panic"
    /\ hist' = <<"new_with_sentinal">>
    /\ UNCHANGED <<buf, rev_vars, rle_vars>>

\* ------------------------------------------------------------ forward
ForwardTransform ==
    /\ pc = "idle"
    /\ Len(hist) < MaxOps
    /\ LET r == forward_transform(s)
       IN  IF r.ok
           THEN /\ s' = r.val
                /\ pc' = "idle"
           ELSE /\ s' = s
                /\ pc' = "panic"
    /\ hist' = Append(hist, "forward_transform")
    /\ UNCHANGED <<buf, idx, rev_vars, rle_vars>>

\* ------------------------------------------------------------ reverse
ReverseBegin ==
    /\ pc = "idle"
    /\ Len(hist) < MaxOps
    /\ right' = s
    /\ left' = as_sorted(s)
    /\ ranks' = rank_vec(s)
    /\ inner' = <<>>
    /\ col' = "Left"
    /\ i' = 0
    /\ pc' = "rev"
    /\ UNCHANGED <<buf, idx, s, hist, rle_vars>>

\* right.inner[i] with i out of bounds: VecDeque's Index panics.
ReverseIndexPanic ==
    /\ pc = "rev"
    /\ i >= len(right)
    /\ pc' = "panic"
    /\ hist' = Append(hist, "reverse_transform")
    /\ UNCHANGED <<buf, idx, s, rev_vars, rle_vars>>

\* (_, Sentinel) => break, then the result is built and returned.
ReverseBreak ==
    /\ pc = "rev"
    /\ i < len(right)
    /\ is_sentinel(right.inner[i + 1])
    /\ s' = BWTStr(inner, Len(inner))
    /\ hist' = Append(hist, "reverse_transform")
    /\ pc' = "idle"
    /\ UNCHANGED <<buf, idx, rev_vars, rle_vars>>

\* (Left, _) => col = Right
ReverseLeft ==
    /\ pc = "rev"
    /\ i < len(right)
    /\ ~is_sentinel(right.inner[i + 1])
    /\ col = "Left"
    /\ col' = "Right"
    /\ UNCHANGED <<buf, idx, s, hist, pc, right, left, ranks, inner, i, rle_vars>>

\* (Right, Byte(b)) => push_front, jump to the rank-th occurrence in left.
ReverseRight ==
    /\ pc = "rev"
    /\ i < len(right)
    /\ ~is_sentinel(right.inner[i + 1])
    /\ col = "Right"
    /\ Len(inner) < MaxOut
    /\ inner' = <<right.inner[i + 1]>> \o inner
    /\ LET rank == ranks[i + 1]
           occ == occurrences(left.inner, right.inner[i + 1])
       IN  IF rank < Len(occ)
           THEN /\ i' = occ[rank + 1]
                /\ col' = "Left"
                /\ pc' = pc
                /\ hist' = hist
           ELSE /\ i' = i
                /\ col' = col
                /\ pc' = "panic"
                /\ hist' = Append(hist, "reverse_transform")
    /\ UNCHANGED <<buf, idx, s, right, left, ranks, rle_vars>>


\* ------------------------------------------------------------ rle_write
RleWriteCall ==
    /\ pc = "idle"
    /\ Len(hist) < MaxOps
    /\ w' = [blocks |-> as_blocks(s.inner), sentinel_index |-> s.sentinel_index]
    /\ pc' = "rle_entry"
    /\ UNCHANGED <<buf, idx, s, hist, rev_vars, pos, cnt, b, out>>

\* The header is written and the peekable iterator created.
RleWriteHeader ==
    /\ pc = "rle_entry"
    /\ out' = to_le_bytes(w.sentinel_index, USIZE_BYTES)
    /\ pos' = 0
    /\ cnt' = 0
    /\ pc' = "w_outer"
    /\ UNCHANGED <<buf, idx, s, hist, rev_vars, w, b>>

\* Outer loop, Byte(b): cnt = 1, the occurrence is consumed.
RleOuterByte ==
    /\ pc = "w_outer"
    /\ peek(w, pos) # None
    /\ ~is_sentinel(peek(w, pos))
    /\ b' = peek(w, pos)
    /\ cnt' = 1
    /\ pos' = pos + 1
    /\ pc' = "w_inner"
    /\ UNCHANGED <<buf, idx, s, hist, rev_vars, w, out>>

\* Outer loop, Sentinel: consumed, nothing written.
RleOuterSentinel ==
    /\ pc = "w_outer"
    /\ is_sentinel(peek(w, pos))
    /\ pos' = pos + 1
    /\ UNCHANGED <<buf, idx, s, hist, pc, rev_vars, w, cnt, b, out>>

\* Outer loop, iterator exhausted: flush and return Ok.
RleOuterEnd ==
    /\ pc = "w_outer"
    /\ peek(w, pos) = None
    /\ hist' = Append(hist, "rle_write")
    /\ pc' = "idle"
    /\ UNCHANGED <<buf, idx, s, rev_vars, rle_vars>>

\* The reset after a full chunk forgotten: the counter goes on to wrap.
RleInnerSame_NoReset ==
    /\ pc = "w_inner"
    /\ is_byte_and_eq(peek(w, pos), b)
    /\ pos' = pos + 1
    /\ LET c == (cnt + 1) % (U16_MAX + 1)
       IN  IF c = U16_MAX
           THEN /\ out' = out \o record_bytes(b, c)
                /\ cnt' = c
           ELSE /\ out' = out
                /\ cnt' = c
    /\ UNCHANGED <<buf, idx, s, hist, pc, rev_vars, w, b>>

\* Inner loop, the next element is the same byte: cnt += 1 (u16), the
\* element is consumed, and a full chunk is written when cnt == u16::MAX.
\* The addition is taken modulo 2^16, as a release build does; cnt is
\* never u16::MAX here (C10), so a debug build's overflow panic is not
\* reached either.
RleInnerSame ==
    /\ pc = "w_inner"
    /\ is_byte_and_eq(peek(w, pos), b)
    /\ pos' = pos + 1
    /\ LET c == (cnt + 1) % (U16_MAX + 1)
       IN  IF c = U16_MAX
           THEN /\ out' = out \o record_bytes(b, c)
                /\ cnt' = 0
           ELSE /\ out' = out
                /\ cnt' = c
    /\ UNCHANGED <<buf, idx, s, hist, pc, rev_vars, w, b>>

\* Inner loop left (another symbol, or the end): the run is written.
RleInnerBreak ==
    /\ pc = "w_inner"
    /\ ~is_byte_and_eq(peek(w, pos), b)
    /\ out' = out \o record_bytes(b, cnt)
    /\ pc' = "w_outer"
    /\ UNCHANGED <<buf, idx, s, hist, rev_vars, w, pos, cnt, b>>

\* ------------------------------------------------------------ rle_read
RleRead ==
    /\ pc = "idle"
    /\ hist # <<>>
    /\ hist[Len(hist)] = "rle_write"
    /\ LET r == rle_read(out)
       IN  IF r.ok
           THEN /\ s' = r.val
                /\ pc' = "idle"
           ELSE /\ s' = s
                /\ pc' = "error"
    /\ hist' = Append(hist, "rle_read")
    /\ UNCHANGED <<buf, idx, rev_vars, rle_vars>>

RleNext ==
    \/ RleWriteHeader
    \/ RleOuterByte
    \/ RleOuterSentinel
    \/ RleOuterEnd
    \/ RleInnerSame
    \/ RleInnerBreak
    \/ RleRead

Next ==
    \/ New
    \/ NewWithSentinal
    \/ ForwardTransform
    \/ ReverseBegin
    \/ ReverseIndexPanic
    \/ ReverseBreak
    \/ ReverseLeft
    \/ ReverseRight
    \/ RleWriteCall
    \/ RleNext

Spec == Init /\ [][Next]_vars

\* One iteration of the loop of reverse_transform.
ReverseLoop ==
    \/ ReverseIndexPanic
    \/ ReverseBreak
    \/ ReverseLeft
    \/ ReverseRight

\* The loop is sequential code: an iteration that can run does run.
FairSpec == Spec /\ WF_vars(ReverseLoop)

\* ------------------------------------------------------------ rle_write alone
\* Every sequence with exactly one Sentinel, at sentinel_index, over the
\* small buffers.
SmallStrs ==
    UNION {{new_with_sentinal(q, k).val : k \in 0..Len(q)} : q \in Buffers}

\* Runs at and beyond the 16-bit limit.
LongInputs ==
    { [blocks |-> <<Block(5, U16_MAX), Block(Sentinel, 1)>>,
       sentinel_index |-> U16_MAX],
      [blocks |-> <<Block(5, 70000), Block(Sentinel, 1)>>,
       sentinel_index |-> 70000],
      [blocks |-> <<Block(7, 3), Block(Sentinel, 1), Block(7, 2 * U16_MAX), Block(9, 1)>>,
       sentinel_index |-> 3] }

RleInputs ==
    {[blocks |-> as_blocks(x.inner), sentinel_index |-> x.sentinel_index] : x \in SmallStrs}
        \cup LongInputs

RleInit ==
    /\ w \in RleInputs
    /\ buf = <<>>
    /\ idx = 0
    /\ s = NoStr
    /\ hist = <<>>
    /\ pc = "rle_entry"
    /\ right = NoStr /\ left = NoStr /\ ranks = <<>> /\ inner = <<>>
    /\ col = "Left" /\ i = 0
    /\ pos = 0 /\ cnt = 0 /\ b = 0 /\ out = <<>>

RleSpec == RleInit /\ [][RleNext]_vars

\* ------------------------------------------------------------ reference
\* The transform as the specification defines it, independent of the
\* code: with Sentinel = -1 the integer order is the symbol order
\* (Sentinel below every byte, bytes by value).
RefRot(t, k) == [j \in 1..Len(t) |-> t[((j - 1 + k) % Len(t)) + 1]]

RefLess(x, y) ==
    \E j \in 1..Len(x) :
        /\ x[j] < y[j]
        /\ \A m \in 1..(j - 1) : x[m] = y[m]

\* The 0-based row of left-rotation k in the sorted matrix of t's Len(t)
\* rotations.
RefRow(t, k) ==
    Cardinality({m \in 0..(Len(t) - 1) : RefLess(RefRot(t, m), RefRot(t, k))})

\* The last column of that matrix.
RefBWT(t) ==
    [r \in 1..Len(t) |->
        LET k == CHOOSE k \in 0..(Len(t) - 1) : RefRow(t, k) = r - 1
        IN  RefRot(t, k)[Len(t)]]

SentinelCount(q) == Cardinality({j \in 1..Len(q) : q[j] = Sentinel})

\* The operations ops have returned, in this order, and nothing runs.
Returned(ops) == hist = ops /\ pc = "idle"

\* ------------------------------------------------------------ claims

\* C1: for every byte buffer B, new(B).forward_transform()
\* .reverse_transform() returns (never panics) a sequence without Sentinel
\* whose bytes are exactly B, in order.
C1_RoundTrip ==
    /\ hist = <<"new", "forward_transform">> => pc # "panic"
    /\ hist = <<"new", "forward_transform", "reverse_transform">>
          => /\ pc # "panic"
             /\ s.inner = buf
             /\ SentinelCount(s.inner) = 0

C1_Witness ==
    /\ Returned(<<"new", "forward_transform", "reverse_transform">>)
    /\ Len(buf) = 3
    /\ buf[1] # buf[2]
    /\ s.inner = buf

\* C3: for every byte buffer B, with L = |B|+1, new(B).forward_transform()
\* returns a sequence of length L that is the last column of the sorted
\* matrix of the L rotations of B followed by Sentinel; it holds exactly
\* one Sentinel and sentinel_index is the index in [0, L) where it sits.
C3_ForwardIsReferenceBWT ==
    hist = <<"new", "forward_transform">> =>
        /\ pc # "panic"
        /\ len(s) = Len(buf) + 1
        /\ s.inner = RefBWT(Append(buf, Sentinel))
        /\ SentinelCount(s.inner) = 1
        /\ s.sentinel_index \in 0..(len(s) - 1)
        /\ s.inner[s.sentinel_index + 1] = Sentinel

C3_Witness ==
    /\ Returned(<<"new", "forward_transform">>)
    /\ Len(buf) = 3
    /\ buf[1] # buf[3]
    /\ s.inner = RefBWT(Append(buf, Sentinel))

\* C4 as stated: the anchor forward_transform returns as sentinel_index
\* is always 0.
C4_AnchorAlwaysZero ==
    Returned(<<"new", "forward_transform">>) => s.sentinel_index = 0

\* C4 as amended: the anchor new(B).forward_transform() returns as
\* sentinel_index, and rle_write writes as the 8-byte little-endian header,
\* is the sorted-matrix row of the un-rotated original (B followed by
\* Sentinel); it is 0 exactly when B is empty.
C4_AnchorIsOriginalRow ==
    /\ hist = <<"new", "forward_transform">> =>
          /\ pc # "panic"
          /\ s.sentinel_index = RefRow(Append(buf, Sentinel), 0)
          /\ (s.sentinel_index = 0) <=> (buf = <<>>)
    /\ Returned(<<"new", "forward_transform", "rle_write">>) =>
          /\ Len(out) >= USIZE_BYTES
          /\ \A j \in 2..USIZE_BYTES : out[j] = 0
          /\ out[1] = RefRow(Append(buf, Sentinel), 0)

C4_Witness ==
    /\ Returned(<<"new", "forward_transform", "rle_write">>)
    /\ s.sentinel_index = 2
    /\ out[1] = 2

\* C5: for every byte buffer B and k in 0..=|B|, forward_transform on
\* new_with_sentinal(B, k) completes without panic and returns the last
\* column of that sequence's sorted rotation matrix.
C5_SentinelAnywhere ==
    (hist = <<"new_with_sentinal", "forward_transform">> /\ idx <= Len(buf)) =>
        /\ pc # "panic"
        /\ s.inner = RefBWT(new_with_sentinal(buf, idx).val.inner)

\* C6: new_with_sentinal(bytes, idx) with idx > |bytes| ends in a
\* malformed-stream error returned to the caller, not in a panic.
C6_OutOfRangeIsError ==
    (hist = <<"new_with_sentinal">> /\ idx > Len(buf)) => pc = "error"

\* C7: reverse_transform on a sequence that does not hold exactly one
\* Sentinel fails fast: it returns no result, and its loop does not run
\* on (a walk over len rows that made more than len productive steps has
\* come back to a row it left, and repeats from there forever).
C7_FailsFast ==
    (SentinelCount(right.inner) # 1
        /\ (pc = "rev" \/ (hist # <<>> /\ hist[Len(hist)] = "reverse_transform")))
    => /\ pc \in {"rev", "panic", "error"}
       /\ Len(inner) <= len(right)

\* C9: for every sequence of length L built by new, all_rotations yields
\* exactly L rows, and the un-rotated sequence is not among them twice.
C9_ExactlyLRotations ==
    Returned(<<"new">>) =>
        /\ Len(all_rotations(s)) = len(s)
        /\ Cardinality({j \in 1..Len(all_rotations(s)) :
                           all_rotations(s)[j].inner = s.inner}) = 1


\* C2: for every sequence S holding exactly one Sentinel, at index
\* S.sentinel_index, decoding the bytes rle_write(S) wrote yields S symbol
\* for symbol, with the same sentinel_index.
C2_RleRoundTrip ==
    hist = <<"rle_write", "rle_read">> =>
        LET S == elems(w.blocks)
        IN  (SentinelCount(S) = 1 /\ S[w.sentinel_index + 1] = Sentinel) =>
                /\ pc = "idle"
                /\ s.inner = S
                /\ s.sentinel_index = w.sentinel_index

C2_Witness ==
    /\ Returned(<<"rle_write", "rle_read">>)
    /\ blocks_len(w.blocks) > 2 * U16_MAX
    /\ w.sentinel_index = 3
    /\ s.inner[4] = Sentinel
    /\ len(s) = blocks_len(w.blocks)

\* The (byte, run_length) records in the bytes after the header.
RECURSIVE records_of(_)
records_of(q) ==
    IF q = <<>> THEN <<>>
    ELSE <<<<q[1], from_le_bytes(SubSeq(q, 2, 3))>>>>
            \o records_of(SubSeq(q, 4, Len(q)))

\* The maximal runs of a block sequence: adjacent blocks of one symbol
\* merged.
RECURSIVE MaximalRuns(_)
MaximalRuns(bl) ==
    IF Len(bl) <= 1 THEN bl
    ELSE LET rest == MaximalRuns(Tail(bl))
         IN  IF Head(bl).sym = Head(rest).sym
             THEN <<Block(Head(bl).sym, Head(bl).n + Head(rest).n)>> \o Tail(rest)
             ELSE <<Head(bl)>> \o rest

\* What the claim prescribes for the runs: floor(n / 65535) records
\* (x, 65535), then one record (x, n mod 65535).
RECURSIVE PrescribedRecords(_)
PrescribedRecords(runs) ==
    IF runs = <<>> THEN <<>>
    ELSE LET x == Head(runs).sym
             n == Head(runs).n
         IN  IF x = Sentinel THEN PrescribedRecords(Tail(runs))
             ELSE [j \in 1..(n \div 65535) |-> <<x, 65535>>]
                    \o <<<<x, n % 65535>>>>
                    \o PrescribedRecords(Tail(runs))

RECURSIVE SumOfCounts(_)
SumOfCounts(recs) ==
    IF recs = <<>> THEN 0 ELSE Head(recs)[2] + SumOfCounts(Tail(recs))

\* C10: for every maximal run of n >= 1 identical bytes x, rle_write emits
\* floor(n / 65535) records (x, 65535) followed by one record
\* (x, n mod 65535); the 16-bit counter is below its maximum whenever it
\* is about to be incremented, so it never wraps; the run lengths written
\* sum to the number of bytes.
C10_Chunking ==
    /\ pc = "w_inner" => cnt \in 0..(U16_MAX - 1)
    /\ hist = <<"rle_write">> =>
          LET recs == records_of(SubSeq(out, USIZE_BYTES + 1, Len(out)))
          IN  /\ recs = PrescribedRecords(MaximalRuns(w.blocks))
              /\ SumOfCounts(recs) = blocks_len(w.blocks) - 1

C10_Witness ==
    /\ Returned(<<"rle_write">>)
    /\ \E j \in 1..Len(w.blocks) : w.blocks[j] = Block(7, 2 * U16_MAX)
    /\ records_of(SubSeq(out, USIZE_BYTES + 1, Len(out)))
          = <<<<7, 3>>, <<7, 65535>>, <<7, 65535>>, <<7, 0>>, <<9, 1>>>>

\* C8: for every byte buffer B, the loop of reverse_transform run on
\* new(B).forward_transform() starts at row 0, never fails the lookup of
\* the rank-th occurrence, and eventually reaches the Sentinel and returns,
\* having made exactly |B| = L-1 productive steps.
C8_ReverseTerminates ==
    /\ []((hist = <<"new", "forward_transform">> /\ pc = "rev"
              /\ inner = <<>> /\ col = "Left") => i = 0)
    /\ [](hist = <<"new", "forward_transform", "reverse_transform">>
              => pc # "panic")
    /\ []((hist = <<"new", "forward_transform">> /\ pc = "rev")
              => Len(inner) <= Len(buf))
    /\ (hist = <<"new", "forward_transform">> /\ pc = "rev")
          ~> (/\ Returned(<<"new", "forward_transform", "reverse_transform">>)
              /\ Len(inner) = Len(buf))

C8_Witness ==
    /\ Returned(<<"new", "forward_transform", "reverse_transform">>)
    /\ Len(buf) = 3
    /\ buf[2] # buf[3]
    /\ Len(inner) = 3

=============================================================================
